---- MODULE Spec2Model ----
(***************************************************************************)
(* Dial-up modem text codec (dialup_modem_codec.py): class DialupModem and *)
(* the settings menu that mutates it.                                      *)
(*                                                                         *)
(* Texts are sequences of Unicode code points, byte strings are sequences  *)
(* of 0..255, bit lists are sequences of 0/1, a WAV file is a record       *)
(* [rate, data] whose data are int16 PCM samples.                          *)
(***************************************************************************)
EXTENDS Integers, Sequences, FiniteSets, TLC

(***************************************************************************)
(* Generic helpers for Python semantics                                    *)
(***************************************************************************)

\* Python int(x) / numpy astype(int16) on a quotient: truncation toward zero.
Trunc(a, b) == IF a >= 0 THEN a \div b ELSE -((-a) \div b)

Abs(a) == IF a >= 0 THEN a ELSE -a

Max(a, b) == IF a >= b THEN a ELSE b

\* Python slice s[lo:hi] on 0-based indices, lo >= 0 (clipped at the end).
Slice(s, lo, hi) ==
  LET h == IF hi > Len(s) THEN Len(s) ELSE hi
  IN  IF lo >= h THEN << >> ELSE [i \in 1..(h - lo) |-> s[lo + i]]

IsPrefix(p, s) == Len(p) <= Len(s) /\ \A i \in 1..Len(p) : p[i] = s[i]

IsStrictPrefix(p, s) == Len(p) < Len(s) /\ IsPrefix(p, s)

(***************************************************************************)
(* str.encode('utf-8') and bytes.decode('utf-8', errors='ignore')          *)
(***************************************************************************)

\* UTF-8 bytes of one code point; lone surrogates are not encodable.
IsSurrogate(cp) == cp >= 55296 /\ cp <= 57343

EncodeCodePoint(cp) ==
  IF cp < 128 THEN << cp >>
  ELSE IF cp < 2048 THEN << 192 + (cp \div 64), 128 + (cp % 64) >>
  ELSE IF cp < 65536
       THEN << 224 + (cp \div 4096), 128 + ((cp \div 64) % 64), 128 + (cp % 64) >>
  ELSE << 240 + (cp \div 262144), 128 + ((cp \div 4096) % 64),
          128 + ((cp \div 64) % 64), 128 + (cp % 64) >>

\* text.encode('utf-8'): the concatenation of the code points' encodings
\* (split in halves so that long texts do not nest deeply).
RECURSIVE Utf8Encode(_)
Utf8Encode(text) ==
  IF Len(text) = 0 THEN << >>
  ELSE IF Len(text) = 1 THEN EncodeCodePoint(text[1])
  ELSE LET h == Len(text) \div 2
       IN  Utf8Encode(SubSeq(text, 1, h)) \o Utf8Encode(SubSeq(text, h + 1, Len(text)))

\* text.encode raises UnicodeEncodeError
Unencodable(text) == \E i \in 1..Len(text) : IsSurrogate(text[i])

IsCont(b) == b >= 128 /\ b <= 191

\* number of continuation bytes a lead byte announces (0: ASCII, -1: invalid start)
Need(b) ==
  IF b < 128 THEN 0
  ELSE IF b < 194 THEN -1
  ELSE IF b < 224 THEN 1
  ELSE IF b < 240 THEN 2
  ELSE IF b < 245 THEN 3
  ELSE -1

\* is c an acceptable j-th continuation byte after lead byte b
ContOk(b, j, c) ==
  /\ IsCont(c)
  /\ (j = 1 /\ b = 224) => c >= 160
  /\ (j = 1 /\ b = 237) => c <= 159
  /\ (j = 1 /\ b = 240) => c >= 144
  /\ (j = 1 /\ b = 244) => c <= 143

\* how many of the bytes after position i are acceptable continuations of bs[i]
RECURSIVE ValidConts(_, _, _)
ValidConts(bs, i, j) ==
  IF j > Need(bs[i]) \/ i + j > Len(bs) THEN j - 1
  ELSE IF ContOk(bs[i], j, bs[i + j]) THEN ValidConts(bs, i, j + 1)
  ELSE j - 1

DecodeCodePoint(bs, i, n) ==
  IF n = 0 THEN bs[i]
  ELSE IF n = 1 THEN (bs[i] - 192) * 64 + (bs[i + 1] - 128)
  ELSE IF n = 2 THEN (bs[i] - 224) * 4096 + (bs[i + 1] - 128) * 64 + (bs[i + 2] - 128)
  ELSE (bs[i] - 240) * 262144 + (bs[i + 1] - 128) * 4096
       + (bs[i + 2] - 128) * 64 + (bs[i + 3] - 128)

\* bytes.decode('utf-8', errors='ignore') from position i on: an invalid start
\* byte is skipped, an invalid continuation drops the bytes before it, a
\* sequence cut by the end of the data is dropped.
DecodeStep(bs, i, bad) ==
  LET n == Need(bs[i])
      v == ValidConts(bs, i, 1)
  IN  IF n = -1 THEN [out |-> bad, pos |-> i + 1]
      ELSE IF v = n THEN [out |-> << DecodeCodePoint(bs, i, n) >>, pos |-> i + n + 1]
      ELSE [out |-> bad, pos |-> i + v + 1]

\* the decoder run over the sequences that start at positions i..hi-1: the
\* characters and the position it stops at (split in halves to keep the
\* evaluation shallow; `bad` is what a rejected piece turns into)
RECURSIVE DecodeRange(_, _, _, _)
DecodeRange(bs, i, hi, bad) ==
  IF i >= hi THEN [out |-> << >>, pos |-> i]
  ELSE IF hi - i = 1 THEN DecodeStep(bs, i, bad)
  ELSE LET l == DecodeRange(bs, i, (i + hi) \div 2, bad)
           r == DecodeRange(bs, l.pos, hi, bad)
       IN  [out |-> l.out \o r.out, pos |-> r.pos]

\* variant: errors='replace', U+FFFD for every rejected piece
Utf8DecodeReplace(bs) == DecodeRange(bs, 1, Len(bs) + 1, << 65533 >>).out

Utf8DecodeIgnore(bs) == DecodeRange(bs, 1, Len(bs) + 1, << >>).out

(***************************************************************************)
(* Frame codec: DialupModem.text_to_bits / DialupModem.bits_to_text        *)
(***************************************************************************)

\* start_marker = b'\xAA\x55\xAA\x55'
start_marker == << 170, 85, 170, 85 >>

\* width of the length field: data_length.to_bytes(2, 'little')
LengthBytes == 2

\* len(bits) < 48: marker plus length
MinBits == 48

\* a value that is returned, or the name of the exception that is raised
Returned(v) == [raised |-> "None", value |-> v]
Raised(e) == [raised |-> e, value |-> << >>]

\* int.to_bytes(w, 'little') overflows iff n >= 256^w
ToBytesOverflows(n, w) == n >= 256 ^ w

\* variant: the length written most significant byte first
ToBytesBig(n, w) == [i \in 1..w |-> (n \div (256 ^ (w - i))) % 256]

ToBytesLittle(n, w) == [i \in 1..w |-> (n \div (256 ^ (i - 1))) % 256]

\* for byte_val in data: for i in range(7, -1, -1): bits.append((byte_val >> i) & 1)
BytesToBits(data) ==
  [i \in 1..(8 * Len(data)) |->
     (data[((i - 1) \div 8) + 1] \div (2 ^ (7 - ((i - 1) % 8)))) % 2]

text_to_bits(text) ==
  IF Unencodable(text) THEN Returned(<< >>)
  ELSE LET text_bytes == Utf8Encode(text)
           data_length == Len(text_bytes)
       IN  IF ToBytesOverflows(data_length, LengthBytes) THEN Raised("OverflowError")
           ELSE Returned(BytesToBits(start_marker
                                     \o ToBytesLittle(data_length, LengthBytes)
                                     \o text_bytes))

\* for i in range(0, len(bits) - 7, 8): if i + 8 <= len(bits): pack 8 bits MSB first
PackByte(bits, i) ==
  bits[i + 1] * 128 + bits[i + 2] * 64 + bits[i + 3] * 32 + bits[i + 4] * 16
  + bits[i + 5] * 8 + bits[i + 6] * 4 + bits[i + 7] * 2 + bits[i + 8]

BitsToBytes(bits) ==
  LET starts == {i \in 0..(Len(bits) - 8) : i % 8 = 0 /\ i + 8 <= Len(bits)}
  IN  [k \in 1..Cardinality(starts) |-> PackByte(bits, 8 * (k - 1))]

\* variant: the search keeps the last match instead of stopping at the first
FindStartPosLast(bytes_data) ==
  LET hits == {i \in 0..(Len(bytes_data) - 4) : Slice(bytes_data, i, i + 4) = start_marker}
  IN  IF hits = {} THEN -1
      ELSE (CHOOSE i \in hits : \A j \in hits : i >= j) + 4

\* for i in range(len(bytes_data) - 3): if bytes_data[i:i+4] == start_marker:
\* start_pos = i + 4; break        (start_pos stays -1 when there is no match)
FindStartPos(bytes_data) ==
  LET hits == {i \in 0..(Len(bytes_data) - 4) : Slice(bytes_data, i, i + 4) = start_marker}
  IN  IF hits = {} THEN -1
      ELSE (CHOOSE i \in hits : \A j \in hits : i <= j) + 4

bits_to_text(bits) ==
  IF Len(bits) < MinBits THEN << >>
  ELSE LET bytes_data == BitsToBytes(bits)
           start_pos == FindStartPos(bytes_data)
       IN  IF start_pos = -1 THEN << >>
           ELSE IF start_pos + 2 >= Len(bytes_data) THEN << >>
           ELSE LET claimed == bytes_data[start_pos + 1] + bytes_data[start_pos + 2] * 256
                    data_start == start_pos + 2
                    data_length == IF data_start + claimed > Len(bytes_data)
                                   THEN Len(bytes_data) - data_start
                                   ELSE claimed
                IN  Utf8DecodeIgnore(Slice(bytes_data, data_start, data_start + data_length))

(***************************************************************************)
(* Arithmetic.  numpy computes in floating point; here amplitudes and      *)
(* reference values are fixed-point numbers with SCALE units to 1.0, and   *)
(* sin/cos are evaluated from the exact rational phase p/q (in turns) by   *)
(* quadrant reduction and the Taylor series.  All products stay below      *)
(* 2^31.                                                                   *)
(***************************************************************************)

\* fixed-point unit: 1.0 is SCALE
SCALE == 10000

\* pi/2 in SCALE units
HalfPi == (15708 * SCALE) \div 10000

\* sin(x) for 0 <= x <= pi/2, x and the result in SCALE units
SinQ(x) ==
  LET x2 == (x * x) \div SCALE
      t3 == (x * x2) \div (SCALE * 6)
      t5 == (t3 * x2) \div (SCALE * 20)
      t7 == (t5 * x2) \div (SCALE * 42)
      t9 == (t7 * x2) \div (SCALE * 72)
  IN  x - t3 + t5 - t7 + t9

\* position of phase p/q turns: the quadrant and the angle inside it
Quadrant(p, q) == (4 * (p % q)) \div q

QuadAngle(p, q) ==
  LET a == (4 * (p % q)) % q
      d == (q \div 100000) + 1
  IN  (HalfPi * (a \div d)) \div (q \div d)

\* np.sin(2 * np.pi * p / q)
FixSin(p, q) ==
  LET k == Quadrant(p, q)
      x == QuadAngle(p, q)
  IN  IF k = 0 THEN SinQ(x)
      ELSE IF k = 1 THEN SinQ(HalfPi - x)
      ELSE IF k = 2 THEN -SinQ(x)
      ELSE -SinQ(HalfPi - x)

\* np.cos(2 * np.pi * p / q)
FixCos(p, q) ==
  LET k == Quadrant(p, q)
      x == QuadAngle(p, q)
  IN  IF k = 0 THEN SinQ(HalfPi - x)
      ELSE IF k = 1 THEN -SinQ(x)
      ELSE IF k = 2 THEN -SinQ(HalfPi - x)
      ELSE SinQ(x)

\* a function with domain 1..n as an explicit tuple
AsTuple(f) == f \o << >>

(***************************************************************************)
(* Waveform synthesis: DialupModem.encode_to_audio                         *)
(***************************************************************************)

\* self.freq_0 = 1070, self.freq_1 = 1270
freq_0 == 1070
freq_1 == 1270

\* full scale of the int16 samples: (audio_data * 32767).astype(np.int16)
PcmFull == 32767

\* bit_signal = 0.8 * np.sin(...): amplitude in tenths
AmplitudeTenths == 8

\* bit_duration = sample_rate / baud_rate is held as the exact quotient
BitDuration(rate, baud) == [num |-> rate, den |-> baud]

\* int(bit_duration)
IntOf(d) == d.num \div d.den

\* silence_duration = int(0.1 * self.sample_rate)
silence_duration(rate) == rate \div 10

\* t = np.linspace(0, 1/baud, n); 0.8 * np.sin(2*pi*freq*t), then the int16
\* sample written to the file: phase of sample k (from 0) is freq*k / (baud*(n-1))
bit_signal(freq, baud, n) ==
  AsTuple([k \in 1..n |->
    LET s == IF n = 1 THEN 0 ELSE FixSin(freq * (k - 1), baud * (n - 1))
    IN  Trunc(Trunc(AmplitudeTenths * s, 10) * PcmFull, SCALE)])

\* variant: the trailing silence is not appended
SynthesizeNoTail(bits, rate, baud, duration) ==
  LET n == IntOf(duration)
      sil == silence_duration(rate)
      tone0 == bit_signal(freq_0, baud, n)
      tone1 == bit_signal(freq_1, baud, n)
      body == Len(bits) * n
  IN  [i \in 1..(sil + body) |->
         IF i <= sil THEN 0
         ELSE LET j == i - sil - 1
              IN  IF bits[(j \div n) + 1] = 1 THEN tone1[(j % n) + 1]
                                            ELSE tone0[(j % n) + 1]]

\* the samples written for a bit list: silence, one bit_signal per bit, silence
Synthesize(bits, rate, baud, duration) ==
  LET n == IntOf(duration)
      sil == silence_duration(rate)
      tone0 == bit_signal(freq_0, baud, n)
      tone1 == bit_signal(freq_1, baud, n)
      body == Len(bits) * n
  IN  [i \in 1..(sil + body + sil) |->
         IF i <= sil \/ i > sil + body THEN 0
         ELSE LET j == i - sil - 1
              IN  IF bits[(j \div n) + 1] = 1 THEN tone1[(j % n) + 1]
                                            ELSE tone0[(j % n) + 1]]

(***************************************************************************)
(* Tone detector: DialupModem.correlate_with_frequency                     *)
(***************************************************************************)

\* t = np.linspace(0, len/sample_rate, len): the phase of reference sample k
\* (from 0) is freq*k*len / (sample_rate*(len-1))
reference_sin(freq, len, rate) ==
  AsTuple([k \in 1..len |->
    IF len = 1 THEN 0 ELSE FixSin(freq * (k - 1) * len, rate * (len - 1))])

reference_cos(freq, len, rate) ==
  AsTuple([k \in 1..len |->
    IF len = 1 THEN SCALE ELSE FixCos(freq * (k - 1) * len, rate * (len - 1))])

\* audio_data.astype(np.float32) / 32767.0
Normalize(v) == Trunc(v * SCALE, PcmFull)

\* np.sum(signal * reference) over the first k samples of the block that
\* starts after `base`, in units of 1/100 SCALE^2... kept as 10^-6
RECURSIVE Dot(_, _, _, _)
Dot(data, base, ref, k) ==
  IF k = 0 THEN 0
  ELSE Dot(data, base, ref, k - 1) + Trunc(Normalize(data[base + k]) * ref[k], 100)

\* corr_sin**2 + corr_cos**2 with the correlations in units of 10^-3
Power(data, base, len, rsin, rcos) ==
  LET corr_sin == Trunc(Dot(data, base, rsin, len), 1000)
      corr_cos == Trunc(Dot(data, base, rcos, len), 1000)
  IN  corr_sin * corr_sin + corr_cos * corr_cos

correlate_with_frequency(signal, freq, rate) ==
  Power(signal, 0, Len(signal),
        reference_sin(freq, Len(signal), rate), reference_cos(freq, Len(signal), rate))

(***************************************************************************)
(* Signal demodulator: the body of DialupModem.decode_from_audio           *)
(***************************************************************************)

\* threshold = 0.01, in hundredths of full scale
ThresholdPercent == 1

\* abs(audio_data[i]) > threshold, on the sample normalised by 32767.0
Loud(v) == 100 * Abs(v) > ThresholdPercent * PcmFull

\* a/b rounded to the nearest integer
Round(a, b) == (2 * a + b) \div (2 * b)

\* variant: the block length rounded instead of truncated
samples_per_bit_rounded(rate, baud) == Round(rate, baud)

\* samples_per_bit = int(sample_rate / self.baud_rate)
samples_per_bit(rate, baud) == rate \div baud

\* start_idx = 0; for i in range(len): if loud: start_idx = max(0, i - spb//4); break
start_idx(data, spb) ==
  LET loud == {i \in 0..(Len(data) - 1) : Loud(data[i + 1])}
  IN  IF loud = {} THEN 0
      ELSE Max(0, (CHOOSE i \in loud : \A j \in loud : i <= j) - (spb \div 4))

\* len(range(0, stop, step)) for step > 0
RangeLen(stop, step) == IF stop <= 0 THEN 0 ELSE (stop + step - 1) \div step

\* variant: a tie between the two powers read as a mark
DecideTieMark(power_0, power_1) == IF power_1 >= power_0 THEN 1 ELSE 0

\* if power_1 > power_0: bits.append(1) else: bits.append(0)
Decide(power_0, power_1) == IF power_1 > power_0 THEN 1 ELSE 0

\* for i in range(0, total_samples - samples_per_bit, samples_per_bit): one bit
\* per iteration, 1 iff power_1 > power_0
BlockBits(data, start, spb, rate) ==
  LET total_samples == Len(data) - start
      count == RangeLen(total_samples - spb, spb)
      sin0 == reference_sin(freq_0, spb, rate)
      cos0 == reference_cos(freq_0, spb, rate)
      sin1 == reference_sin(freq_1, spb, rate)
      cos1 == reference_cos(freq_1, spb, rate)
  IN  [b \in 1..count |->
         LET base == start + (b - 1) * spb
             power_0 == Power(data, base, spb, sin0, cos0)
             power_1 == Power(data, base, spb, sin1, cos1)
         IN  Decide(power_0, power_1)]

\* lines 201-263: what the try block computes before bits_to_text, or the
\* exception it raises (division by a zero file rate, range() with step 0)
Demodulate(file, baud) ==
  IF file.rate = 0 THEN Raised("ZeroDivisionError")
  ELSE LET spb == samples_per_bit(file.rate, baud)
           start == start_idx(file.data, spb)
       IN  IF spb = 0 THEN Raised("ValueError")
           ELSE Returned([samples_per_bit |-> spb,
                          start_idx |-> start,
                          bits |-> AsTuple(BlockBits(file.data, start, spb, file.rate))])

(***************************************************************************)
(* State                                                                   *)
(***************************************************************************)

VARIABLES
  sample_rate,   \* modem.sample_rate
  baud_rate,     \* modem.baud_rate
  bit_duration,  \* modem.bit_duration (the quotient sample_rate / baud_rate)
  debug_mode,    \* modem.debug_mode
  wav,           \* the WAV file the calls write and read: [exists, rate, data]
  channel,       \* what happened to the file since encode wrote it: [sent, baud, pad, cut]
  ret,           \* outcome of the last call: [op, input, raised, ok, text]
  log,           \* what the last decode printed: [samples_per_bit, start_idx, bits, caught]
  frame          \* a bit list handed between text_to_bits and bits_to_text

modem == << sample_rate, baud_rate, bit_duration, debug_mode >>

vars == << sample_rate, baud_rate, bit_duration, debug_mode, wav, channel, ret, log, frame >>

\* def __init__(self, sample_rate=8000, baud_rate=300)
DefaultSampleRate == 8000
DefaultBaudRate == 300

NoFile == [exists |-> FALSE, rate |-> 0, data |-> << >>]

NoChannel == [sent |-> << >>, baud |-> 0, pad |-> 0, cut |-> FALSE]

NoLog == [samples_per_bit |-> 0, start_idx |-> 0, bits |-> << >>, caught |-> "None"]

Outcome(op, input, raised, ok, text) ==
  [op |-> op, input |-> input, raised |-> raised, ok |-> ok, text |-> text]

NoFrame == [stage |-> "idle", text |-> << >>, bits |-> << >>, out |-> << >>]

(***************************************************************************)
(* Inputs of the model                                                     *)
(***************************************************************************)

\* longest waveform (in samples) the model lets encode_to_audio write
MaxSamples == 4000

\* most zero samples the channel prepends to a file
MaxPad == 1

\* "", "Hi", "Hé" and a lone surrogate (not encodable in UTF-8)
Texts == { << >>, << 72, 105 >>, << 72, 233 >>, << 55296 >> }

\* lengths (in samples) a recording may be cut to
CutLengths == { 0, 10, 26, 800, 2095, 2300, 2500 }

\* what the user types at the settings prompts
RateInputs == { << "6", "9" >>, << "0" >>, << "a" >> }
BaudInputs == { << "2" >>, << "1", "0", "0", "0" >>, << "-", "5" >>, << >> }

(***************************************************************************)
(* DialupModem.__init__ and main(): modem = DialupModem()                  *)
(***************************************************************************)

Init ==
  /\ sample_rate = DefaultSampleRate
  /\ baud_rate = DefaultBaudRate
  /\ bit_duration = BitDuration(DefaultSampleRate, DefaultBaudRate)
  /\ debug_mode = FALSE
  /\ wav = NoFile
  /\ channel = NoChannel
  /\ ret = Outcome("init", << >>, "None", FALSE, << >>)
  /\ log = NoLog
  /\ frame = NoFrame

(***************************************************************************)
(* DialupModem.encode_to_audio(text, output_file)                          *)
(***************************************************************************)

\* number of samples encode_to_audio writes for a bit list
WaveLength(nbits, rate, duration) == 2 * silence_duration(rate) + nbits * IntOf(duration)

encode_to_audio(text) ==
  LET r == text_to_bits(text)
  IN  IF r.raised # "None"
      THEN /\ ret' = Outcome("encode", text, r.raised, FALSE, << >>)
           /\ UNCHANGED << wav, channel >>
      ELSE IF r.value = << >>
      THEN /\ ret' = Outcome("encode", text, "None", FALSE, << >>)
           /\ UNCHANGED << wav, channel >>
      ELSE /\ WaveLength(Len(r.value), sample_rate, bit_duration) <= MaxSamples
           /\ wav' = [exists |-> TRUE, rate |-> sample_rate,
                      data |-> AsTuple(Synthesize(r.value, sample_rate, baud_rate, bit_duration))]
           /\ channel' = [sent |-> text, baud |-> baud_rate, pad |-> 0, cut |-> FALSE]
           /\ ret' = Outcome("encode", text, "None", TRUE, << >>)

Encode ==
  \E text \in Texts :
    /\ encode_to_audio(text)
    /\ log' = NoLog
    /\ UNCHANGED << modem, frame >>

(***************************************************************************)
(* DialupModem.decode_from_audio(input_file)                               *)
(***************************************************************************)

\* the try block: the text returned and what was printed, or the exception
DecodeBody(file, baud) ==
  IF ~file.exists THEN [raised |-> "None", text |-> << >>, log |-> NoLog]
  ELSE LET d == Demodulate(file, baud)
       IN  IF d.raised # "None"
           THEN [raised |-> d.raised, text |-> << >>,
                 log |-> [NoLog EXCEPT !.samples_per_bit =
                            IF file.rate = 0 THEN 0 ELSE samples_per_bit(file.rate, baud)]]
           ELSE [raised |-> "None", text |-> bits_to_text(d.value.bits),
                 log |-> [samples_per_bit |-> d.value.samples_per_bit,
                          start_idx |-> d.value.start_idx,
                          bits |-> d.value.bits, caught |-> "None"]]

\* variant: no except clause, the exception leaves the call
decode_from_audio_uncaught(file, baud) == DecodeBody(file, baud)

\* except Exception as e: ... return ""
decode_from_audio(file, baud) ==
  LET r == DecodeBody(file, baud)
  IN  IF r.raised # "None"
      THEN [raised |-> "None", text |-> << >>, log |-> [r.log EXCEPT !.caught = r.raised]]
      ELSE r

Decode ==
  LET r == decode_from_audio(wav, baud_rate)
  IN  /\ ret' = Outcome("decode", << >>, r.raised, FALSE, r.text)
      /\ log' = r.log
      /\ UNCHANGED << modem, wav, channel, frame >>

(***************************************************************************)
(* The audio channel between encode and decode (the file is a recording)   *)
(***************************************************************************)

\* one more zero sample in front of the recording
PrependSilence ==
  /\ wav.exists /\ ~channel.cut /\ channel.pad < MaxPad
  /\ wav' = [wav EXCEPT !.data = << 0 >> \o @]
  /\ channel' = [channel EXCEPT !.pad = @ + 1]
  /\ ret' = Outcome("channel", << >>, "None", FALSE, << >>)
  /\ log' = NoLog
  /\ UNCHANGED << modem, frame >>

\* the recording stops early: only its first n samples are kept
Truncate ==
  \E n \in CutLengths :
    /\ wav.exists /\ ~channel.cut /\ channel.pad = 0 /\ n < Len(wav.data)
    /\ wav' = [wav EXCEPT !.data = SubSeq(@, 1, n)]
    /\ channel' = [channel EXCEPT !.cut = TRUE]
    /\ ret' = Outcome("channel", << >>, "None", FALSE, << >>)
    /\ log' = NoLog
    /\ UNCHANGED << modem, frame >>

(***************************************************************************)
(* settings_menu(modem)                                                    *)
(***************************************************************************)

DigitValue(c) ==
  CASE c = "0" -> 0 [] c = "1" -> 1 [] c = "2" -> 2 [] c = "3" -> 3 [] c = "4" -> 4
    [] c = "5" -> 5 [] c = "6" -> 6 [] c = "7" -> 7 [] c = "8" -> 8 [] c = "9" -> 9
    [] OTHER -> -1

RECURSIVE DigitsValue(_, _)
DigitsValue(s, n) ==
  IF n = 0 THEN 0 ELSE DigitsValue(s, n - 1) * 10 + DigitValue(s[n])

\* variant: the sign is read and dropped
ParseIntUnsigned(s) ==
  LET signed == Len(s) > 0 /\ s[1] \in {"-", "+"}
      digits == IF signed THEN Tail(s) ELSE s
  IN  IF Len(digits) = 0 \/ \E i \in 1..Len(digits) : DigitValue(digits[i]) = -1
      THEN Raised("ValueError")
      ELSE Returned(DigitsValue(digits, Len(digits)))

\* int(input(...)): an optional sign and decimal digits, else ValueError
ParseInt(s) ==
  LET signed == Len(s) > 0 /\ s[1] \in {"-", "+"}
      digits == IF signed THEN Tail(s) ELSE s
  IN  IF Len(digits) = 0 \/ \E i \in 1..Len(digits) : DigitValue(digits[i]) = -1
      THEN Raised("ValueError")
      ELSE Returned(IF signed /\ s[1] = "-" THEN -DigitsValue(digits, Len(digits))
                                             ELSE DigitsValue(digits, Len(digits)))

SettingsDone ==
  /\ ret' = Outcome("settings", << >>, "None", FALSE, << >>)
  /\ log' = NoLog
  /\ UNCHANGED << wav, channel, frame >>

\* choice == '1'
SetSampleRate ==
  \E typed \in RateInputs :
    LET new_rate == ParseInt(typed)
    IN  /\ IF new_rate.raised = "None" /\ new_rate.value > 0
           THEN /\ sample_rate' = new_rate.value
                /\ bit_duration' = BitDuration(new_rate.value, baud_rate)
                /\ UNCHANGED << baud_rate, debug_mode >>
           ELSE UNCHANGED modem
        /\ SettingsDone

\* choice == '2'
SetBaudRate ==
  \E typed \in BaudInputs :
    LET new_baud == ParseInt(typed)
    IN  /\ IF new_baud.raised = "None" /\ new_baud.value > 0
           THEN /\ baud_rate' = new_baud.value
                /\ bit_duration' = BitDuration(sample_rate, new_baud.value)
                /\ UNCHANGED << sample_rate, debug_mode >>
           ELSE UNCHANGED modem
        /\ SettingsDone

\* choice == '3'
ToggleDebug ==
  /\ debug_mode' = ~debug_mode
  /\ UNCHANGED << sample_rate, baud_rate, bit_duration >>
  /\ SettingsDone

\* choice == '4'
ResetDefaults ==
  /\ sample_rate' = DefaultSampleRate
  /\ baud_rate' = DefaultBaudRate
  /\ bit_duration' = BitDuration(DefaultSampleRate, DefaultBaudRate)
  /\ debug_mode' = FALSE
  /\ SettingsDone

(***************************************************************************)
(* Calls of the frame codec alone: modem.text_to_bits, modem.bits_to_text  *)
(***************************************************************************)

\* "", "Hi", "é", "€", an emoji, a mix, a lone surrogate, 300 times "a", and
\* the characters U+00AA "U" U+00AA "U"
FrameTexts ==
  { << >>, << 72, 105 >>, << 233 >>, << 8364 >>, << 128512 >>,
    << 72, 233, 8364, 128512 >>, << 55296 >>, [i \in 1..300 |-> 97],
    << 170, 85, 170, 85 >> }

\* bits = modem.text_to_bits(text)
Serialize ==
  \E text \in FrameTexts :
    LET r == text_to_bits(text)
    IN  /\ r.raised = "None"
        /\ frame' = [stage |-> "bits", text |-> text, bits |-> r.value, out |-> << >>]
        /\ UNCHANGED << modem, wav, channel, ret, log >>

\* text = modem.bits_to_text(bits)
Deserialize ==
  /\ frame.stage = "bits"
  /\ frame' = [frame EXCEPT !.stage = "text", !.out = bits_to_text(frame.bits)]
  /\ UNCHANGED << modem, wav, channel, ret, log >>

FrameNext ==
  \/ Serialize
  \/ Deserialize
  \/ SetSampleRate
  \/ SetBaudRate
  \/ ToggleDebug
  \/ ResetDefaults

FrameSpec == Init /\ [][FrameNext]_vars

(***************************************************************************)
(* bits_to_text on a frame inside a longer bit stream                      *)
(***************************************************************************)

\* whole bytes in front of the frame: nothing, a zero byte, pieces of the
\* marker, and two that hold a marker window themselves
JunkPrefixes ==
  { BytesToBits(b) : b \in { << >>, << 0 >>, << 170 >>, << 255, 170, 85, 170 >>,
                             << 170, 85 >>, << 170, 85, 170, 85, 1, 0, 66 >> } }

\* bits after the frame: nothing, one bit, twenty zero bits (silence), nine
\* one bits, and a second frame
Trailers ==
  { << >>, << 0 >>, [i \in 1..20 |-> 0], [i \in 1..9 |-> 1],
    BytesToBits(<< 170, 85, 170, 85, 1, 0, 88 >>) }

\* text = modem.bits_to_text(junk + bits + trailer)
Deframe ==
  \E j \in JunkPrefixes, t \in Trailers :
    LET stream == j \o frame.bits \o t
    IN  /\ frame.stage = "bits"
        /\ frame' = [frame EXCEPT !.stage = "stream", !.bits = stream,
                                  !.out = bits_to_text(stream)]
        /\ UNCHANGED << modem, wav, channel, ret, log >>

StreamNext ==
  \/ Serialize
  \/ Deserialize
  \/ Deframe

StreamSpec == Init /\ [][StreamNext]_vars

(***************************************************************************)
(* encode_to_audio on texts of any length                                  *)
(***************************************************************************)

\* 16384 four-byte characters: 65536 bytes of UTF-8, one more than 2 bytes count
LongText == [i \in 1..((256 ^ LengthBytes) \div 4) |-> 128512]

EncodeAnyLength ==
  \E text \in Texts \cup { LongText } :
    /\ encode_to_audio(text)
    /\ log' = NoLog
    /\ UNCHANGED << modem, frame >>

LongNext ==
  \/ EncodeAnyLength
  \/ SetSampleRate
  \/ SetBaudRate
  \/ ResetDefaults

LongSpec == Init /\ [][LongNext]_vars

(***************************************************************************)
(* The settings menu between calls of the codec                            *)
(***************************************************************************)

ConfigNext ==
  \/ Encode
  \/ Decode
  \/ SetSampleRate
  \/ SetBaudRate
  \/ ToggleDebug
  \/ ResetDefaults

ConfigSpec == Init /\ [][ConfigNext]_vars

\* the calls of the codec on one file, the channel between them, and the
\* settings the codec computes with (debug_mode only adds prints; it is
\* toggled in FrameSpec)
Next ==
  \/ Encode
  \/ Decode
  \/ PrependSilence
  \/ Truncate
  \/ SetSampleRate
  \/ SetBaudRate
  \/ ResetDefaults

Spec == Init /\ [][Next]_vars

(***************************************************************************)
(* Properties                                                              *)
(***************************************************************************)

\* the frame bytes the wire format prescribes for a payload
WireBytes(payload) ==
  << 170, 85, 170, 85, Len(payload) % 256, Len(payload) \div 256 >> \o payload

\* bit k (from 1) of a byte sequence, most significant bit of each byte first
WireBit(bytes, k) == (bytes[((k - 1) \div 8) + 1] \div (2 ^ (7 - ((k - 1) % 8)))) % 2

AtDefaults == sample_rate = 8000 /\ baud_rate = 300

\* C8: a waveform written by encode is floor(0.1*sample_rate) zero samples,
\* then one tone block per frame bit (8*(6+n) of them, each samples_per_bit
\* long, mark tone for 1 and space tone for 0), then the same silence again;
\* "Hi" at the defaults has 800 + 64*samples_per_bit + 800 samples and "" at
\* the defaults is non-empty with 48 blocks.
C8_WaveformLayout ==
  (ret.op = "encode" /\ ret.ok) =>
    LET bytes == WireBytes(Utf8Encode(ret.input))
        nbits == 8 * Len(bytes)
        sil == sample_rate \div 10
        b == samples_per_bit(sample_rate, baud_rate)
        data == wav.data
    IN  /\ Len(data) = sil + nbits * b + sil
        /\ \A i \in 1..sil : data[i] = 0 /\ data[sil + nbits * b + i] = 0
        /\ \A k \in 1..nbits :
             SubSeq(data, sil + (k - 1) * b + 1, sil + k * b)
               = bit_signal(IF WireBit(bytes, k) = 1 THEN freq_1 ELSE freq_0, baud_rate, b)
        /\ (AtDefaults /\ ret.input = << 72, 105 >>) => Len(data) = 800 + 64 * b + 800
        /\ (AtDefaults /\ ret.input = << >>) => (Len(data) > 0 /\ nbits = 48)

C8_Witness ==
  /\ ret.op = "encode" /\ ret.ok /\ AtDefaults
  /\ ret.input = << 72, 105 >>
  /\ Len(wav.data) = 3264
  /\ \E i \in 1..Len(wav.data) : wav.data[i] # 0

\* C9 as stated: the synthesizer's samples per bit and the demodulator's block
\* length both equal sample_rate / baud_rate rounded to the nearest integer,
\* and that is at least 1.
C9_Original_Rounded ==
  /\ (ret.op = "encode" /\ ret.ok) =>
       /\ Len(wav.data) = 2 * (sample_rate \div 10)
                          + 8 * (6 + Len(Utf8Encode(ret.input))) * Round(sample_rate, baud_rate)
       /\ Round(sample_rate, baud_rate) >= 1
  /\ (ret.op = "decode" /\ wav.exists /\ wav.rate > 0) =>
       /\ log.samples_per_bit = Round(wav.rate, baud_rate)
       /\ log.samples_per_bit >= 1

\* C9 amended: both equal sample_rate / baud_rate rounded down (26 at the
\* 8000 Hz / 300 baud defaults), which is at least 1 exactly when the sample
\* rate is not below the baud rate.
C9_SamplesPerBitFloor ==
  /\ (ret.op = "encode" /\ ret.ok) =>
       /\ Len(wav.data) = 2 * (sample_rate \div 10)
                          + 8 * (6 + Len(Utf8Encode(ret.input))) * (sample_rate \div baud_rate)
       /\ AtDefaults => Len(wav.data) = 1600 + 8 * (6 + Len(Utf8Encode(ret.input))) * 26
  /\ (ret.op = "decode" /\ wav.exists /\ wav.rate > 0) =>
       /\ log.samples_per_bit = wav.rate \div baud_rate
       /\ (log.samples_per_bit >= 1) <=> (wav.rate >= baud_rate)
       /\ (wav.rate = 8000 /\ baud_rate = 300) => log.samples_per_bit = 26

C9_Witness ==
  /\ ret.op = "decode" /\ wav.exists /\ log.caught = "None"
  /\ wav.rate = 8000 /\ baud_rate = 300
  /\ log.samples_per_bit = 26
  /\ Len(log.bits) > 0

\* C10 as stated: with N samples from the effective start to the end and block
\* length b >= 1 the demodulator emits exactly floor(N / b) bits.
C10_Original_FloorBlocks ==
  (ret.op = "decode" /\ wav.exists /\ log.caught = "None" /\ log.samples_per_bit >= 1) =>
    Len(log.bits) = (Len(wav.data) - log.start_idx) \div log.samples_per_bit

\* C1 as stated: decoding the unmodified file that encode wrote under the same
\* configuration returns the encoded text (looked at only where the
\* configuration gives at least one sample per bit).
C1_Original_RoundTrip ==
  (/\ ret.op = "decode" /\ wav.exists
   /\ channel.pad = 0 /\ ~channel.cut
   /\ wav.rate = sample_rate /\ channel.baud = baud_rate
   /\ sample_rate >= baud_rate) =>
    ret.text = channel.sent

\* the recording without the zero samples the channel put in front of it
Unpadded == [wav EXCEPT !.data = SubSeq(@, channel.pad + 1, Len(@))]

\* C4 as stated: zero samples prepended to an encoded waveform do not change
\* the decoded text.
C4_Original_LeadingSilence ==
  (ret.op = "decode" /\ wav.exists /\ ~channel.cut /\ channel.pad > 0) =>
    ret.text = decode_from_audio(Unpadded, baud_rate).text

\* the demodulated bits are a prefix of the frame of the encoded text that holds
\* the whole marker and length field but not the whole payload
CutInsidePayload ==
  LET bytes == WireBytes(Utf8Encode(channel.sent))
  IN  /\ log.caught = "None"
      /\ Len(log.bits) >= 48
      /\ Len(log.bits) < 8 * Len(bytes)
      /\ \A k \in 1..Len(log.bits) : log.bits[k] = WireBit(bytes, k)

\* C3: when the recording is cut inside the payload tones, so that the
\* demodulated bits are such a prefix, decode returns without raising a strict
\* prefix of the encoded text (a character cut in the middle contributes
\* nothing).
C3_TruncationPrefix ==
  (ret.op = "decode" /\ wav.exists /\ channel.cut /\ CutInsidePayload) =>
    /\ ret.raised = "None"
    /\ IsStrictPrefix(ret.text, channel.sent)

\* "Hé" cut inside the two bytes of é decodes to "H"
C3_Witness ==
  /\ ret.op = "decode" /\ wav.exists /\ channel.cut /\ CutInsidePayload
  /\ channel.sent = << 72, 233 >>
  /\ Len(log.bits) >= 64
  /\ ret.text = << 72 >>

\* no 4-byte window of the packed bytes equals the start marker
NoMarker(bits) ==
  ~ \E i \in 0..((Len(bits) \div 8) - 4) :
       /\ PackByte(bits, 8 * i) = 170 /\ PackByte(bits, 8 * i + 8) = 85
       /\ PackByte(bits, 8 * i + 16) = 170 /\ PackByte(bits, 8 * i + 24) = 85

Silent(data) == \A i \in 1..Len(data) : data[i] = 0

\* C5: fewer than 48 demodulated bits, no marker among the packed bytes, a
\* waveform shorter than one bit period or an all-zero waveform of any length
\* make decode return the empty string without raising; an all-zero waveform
\* demodulates to zero bits only.
C5_InsufficientDataIsEmpty ==
  (ret.op = "decode" /\ wav.exists) =>
    /\ (\/ Len(log.bits) < 48
        \/ NoMarker(log.bits)
        \/ Len(wav.data) * baud_rate < wav.rate
        \/ Silent(wav.data)) => (ret.text = << >> /\ ret.raised = "None")
    /\ Silent(wav.data) => \A k \in 1..Len(log.bits) : log.bits[k] = 0

\* silence long enough for blocks: every bit is 0, the text is empty
C5_Witness ==
  /\ ret.op = "decode" /\ wav.exists /\ Silent(wav.data)
  /\ Len(log.bits) >= 1
  /\ \A k \in 1..Len(log.bits) : log.bits[k] = 0
  /\ ret.text = << >> /\ ret.raised = "None"

\* reachable as well: at least 48 demodulated bits without a marker
C5_NoMarkerReached ==
  /\ ret.op = "decode" /\ wav.exists /\ Len(log.bits) >= 48 /\ NoMarker(log.bits)

IsText(t) ==
  \A i \in 1..Len(t) : t[i] \in 0..1114111 /\ ~IsSurrogate(t[i])

\* C6: every call of decode returns a string, raises nothing and leaves the
\* modem configuration as it was.
C6_DecodeNeverFails ==
  [][ret'.op = "decode" => (ret'.raised = "None" /\ IsText(ret'.text) /\ modem' = modem)]_vars

\* a decode whose body raised (block length 0) and still returned ""
C6_Witness ==
  /\ ret.op = "decode" /\ wav.exists
  /\ log.caught = "ValueError"
  /\ ret.raised = "None" /\ ret.text = << >>

\* C2: text_to_bits of a text with payload p (n bytes) returns 8*(6+n) bits,
\* the bytes AA 55 AA 55, n mod 256, n div 256, p with the most significant bit
\* of each byte first, and leaves the modem configuration alone.
C2_WireFormat ==
  [][(frame' # frame /\ frame'.stage = "bits" /\ ~Unencodable(frame'.text)) =>
       LET bytes == WireBytes(Utf8Encode(frame'.text))
       IN  /\ Len(frame'.bits) = 8 * Len(bytes)
           /\ \A k \in 1..Len(frame'.bits) : frame'.bits[k] \in {0, 1}
           /\ \A j \in 1..Len(bytes) : PackByte(frame'.bits, 8 * (j - 1)) = bytes[j]
           /\ modem' = modem]_vars

\* a 300-byte payload: length bytes 0x2C 0x01, under a changed configuration
C2_Witness ==
  /\ frame.stage = "bits"
  /\ Len(frame.text) = 300
  /\ Len(frame.bits) = 8 * 306
  /\ PackByte(frame.bits, 32) = 44 /\ PackByte(frame.bits, 40) = 1
  /\ PackByte(frame.bits, 48) = 97
  /\ debug_mode /\ baud_rate = 2

\* C7 as stated: encode fails exactly when the text is not representable in
\* UTF-8 and in no other way; every representable text, whatever its length,
\* yields a waveform.
C7_Original_OnlyEncodingError ==
  (ret.op = "encode") =>
    /\ Unencodable(ret.input) => (~ret.ok /\ ret.raised \in {"None", "UnicodeEncodeError"})
    /\ ~Unencodable(ret.input) => (ret.ok /\ ret.raised = "None")

\* the wire bits of a text: marker, length and payload, most significant bit first
WireBits(text) ==
  LET bytes == WireBytes(Utf8Encode(text))
  IN  [k \in 1..(8 * Len(bytes)) |-> WireBit(bytes, k)]

\* no marker window starts inside the first n bytes of the packed bits
NoMarkerBefore(bits, n) ==
  ~ \E i \in 0..(n - 1) :
       /\ 8 * i + 32 <= Len(bits)
       /\ PackByte(bits, 8 * i) = 170 /\ PackByte(bits, 8 * i + 8) = 85
       /\ PackByte(bits, 8 * i + 16) = 170 /\ PackByte(bits, 8 * i + 24) = 85

\* the stream is junk j, the frame of the text, trailer t
StreamOf(j, t) == frame.bits = j \o WireBits(frame.text) \o t

\* C11: for a text s, whole-byte junk j in front of its frame such that the
\* first marker window of j ++ serialize(s) is the frame's own, and any bits t
\* after it, bits_to_text(j ++ serialize(s) ++ t) = s: trailing bits never
\* change the result and marker bytes in the payload do not either.
C11_SelfDelimiting ==
  (frame.stage = "stream" /\ ~Unencodable(frame.text)) =>
    \A j \in JunkPrefixes, t \in Trailers :
      (StreamOf(j, t) /\ NoMarkerBefore(j \o WireBits(frame.text), Len(j) \div 8))
        => frame.out = frame.text

\* marker pieces in front, marker-like characters in the payload and a second
\* frame behind: the text still comes back
C11_Witness ==
  /\ frame.stage = "stream"
  /\ frame.text = << 170, 85, 170, 85 >>
  /\ StreamOf(BytesToBits(<< 255, 170, 85, 170 >>),
              BytesToBits(<< 170, 85, 170, 85, 1, 0, 88 >>))
  /\ frame.out = frame.text

\* reachable as well: junk that holds a marker window of its own, where the
\* text does not come back
C11_ForeignMarkerReached ==
  /\ frame.stage = "stream" /\ frame.text = << 72, 105 >>
  /\ StreamOf(BytesToBits(<< 170, 85 >>), << >>)
  /\ frame.out # frame.text

\* both rates positive and bit_duration the quotient of the current values
ConfigOk ==
  /\ sample_rate > 0 /\ baud_rate > 0
  /\ bit_duration = [num |-> sample_rate, den |-> baud_rate]

\* the positive numbers among what is typed at the two prompts
PositiveRates == { 69 }
PositiveBauds == { 2, 1000 }

\* what a step of each kind may do to the configuration
ConfigStep ==
  /\ SetSampleRate =>
       \/ modem' = modem
       \/ /\ sample_rate' \in PositiveRates
          /\ bit_duration' = [num |-> sample_rate', den |-> baud_rate]
          /\ baud_rate' = baud_rate /\ debug_mode' = debug_mode
  /\ SetBaudRate =>
       \/ modem' = modem
       \/ /\ baud_rate' \in PositiveBauds
          /\ bit_duration' = [num |-> sample_rate, den |-> baud_rate']
          /\ sample_rate' = sample_rate /\ debug_mode' = debug_mode
  /\ ToggleDebug =>
       /\ debug_mode' = ~debug_mode
       /\ sample_rate' = sample_rate /\ baud_rate' = baud_rate
       /\ bit_duration' = bit_duration
  /\ ResetDefaults =>
       /\ sample_rate' = 8000 /\ baud_rate' = 300
       /\ bit_duration' = [num |-> 8000, den |-> 300]
  /\ (ret'.op \in {"encode", "decode"}) => modem' = modem

\* C12: whatever settings operations and encode/decode calls are made, in any
\* order, sample_rate > 0, baud_rate > 0 and bit_duration is sample_rate /
\* baud_rate of the current values; a prompt changes the configuration only to
\* a positive number that was typed (a rejected input changes nothing), and
\* reset restores 8000, 300 and the matching bit_duration.
C12_ConfigInvariant == [](ConfigOk) /\ [][ConfigStep]_vars

\* both values changed and debug switched on, with a file encoded and decoded
C12_Witness ==
  /\ sample_rate = 69 /\ baud_rate = 1000 /\ debug_mode
  /\ bit_duration = [num |-> 69, den |-> 1000]
  /\ wav.exists /\ ret.op = "decode"

====
